---- MODULE Spec2Model ----
(***************************************************************************)
(* Model of pip's "search" command (src/pip/_internal/commands/search.py): *)
(* SearchCommand.run, webpage_search, transform_hits, print_results and    *)
(* highest_version.                                                        *)
(*                                                                         *)
(* Python strings are sequences of one-character strings, so that len(),   *)
(* padding, wrapping and version parsing are computed, not assumed.        *)
(* An Optional value is a sequence of length at most one: None is << >>    *)
(* and a value v is <<v>>.                                                 *)
(***************************************************************************)
EXTENDS Integers, Sequences, FiniteSets, TLC

VARIABLES
    entry,              \* the function the caller invoked (bottom stack frame)
    pc,                 \* position in the code
    args,               \* run: the positional query terms
    gets,               \* number of HTTP GET requests issued
    page,               \* webpage_search: the package snippets of the parsed page
    sIdx,               \* webpage_search: index of the next snippet of the for loop
    results,            \* webpage_search: the local list `results`
    pypi_hits,          \* run: pypi_hits / transform_hits: the parameter `hits`
    tIdx,               \* transform_hits: index of the next hit of the for loop
    packages,           \* transform_hits: the OrderedDict, as its list of values
    hits,               \* run: hits / print_results: the parameter `hits`
    name_column_width,  \* print_results: parameter / local (Optional[int])
    terminal_width,     \* run local / print_results parameter (Optional[int])
    pIdx,               \* print_results: index of the next hit of the for loop
    output,             \* the lines handed successfully to write_output, in order
    failAt,             \* history: per printed hit, the write that raised (0: none)
    raised,             \* the exception that left the invoked function, or "none"
    status,             \* the value run returned, or "none"
    installed,          \* environment: package name -> Optional installed version
    lossy               \* environment: stdout's encoding cannot encode every line

vars == <<entry, pc, args, gets, page, sIdx, results, pypi_hits, tIdx, packages,
          hits, name_column_width, terminal_width, pIdx, output, failAt, raised,
          status, installed, lossy>>

envVars    == <<entry, args, installed, lossy>>
searchVars == <<gets, page, sIdx, results>>
printVars  == <<hits, name_column_width, terminal_width, pIdx, output, failAt>>

----------------------------------------------------------------------------
(* Bounds of the model *)

MaxArgs == 2            \* query terms on the command line
MaxSnippets == 2        \* package snippets on one results page
MaxHits == 3            \* hits handed to transform_hits when called directly
MaxResults == 2         \* records handed to print_results when called directly
MaxColWidth == 10       \* largest explicit name_column_width
MaxTermWidth == 25      \* largest terminal width
MaxSummaryLen == 12     \* longest summary text of the wrapping specification

----------------------------------------------------------------------------
(* Optional values and strings *)

None == << >>
Some(v) == <<v>>
IsNone(o) == o = << >>

RECURSIVE Spaces(_)
Spaces(n) == IF n <= 0 THEN << >> ELSE <<" ">> \o Spaces(n - 1)

RECURSIVE Concat(_)
Concat(ss) == IF ss = << >> THEN << >> ELSE Head(ss) \o Concat(Tail(ss))

Max2(a, b) == IF a >= b THEN a ELSE b

IsPrefix(p, s) == Len(p) <= Len(s) /\ SubSeq(s, 1, Len(p)) = p

\* All sequences over S of length at most n.
RECURSIVE SeqsUpTo(_, _)
SeqsUpTo(S, n) ==
    IF n = 0 THEN {<< >>}
    ELSE LET shorter == SeqsUpTo(S, n - 1)
         IN  shorter \cup {Append(s, x) : s \in {t \in shorter : Len(t) = n - 1}, x \in S}

----------------------------------------------------------------------------
(* Version strings and version precedence (pip._vendor.packaging.version) *)

V10   == <<"1", ".", "0">>
V100  == <<"1", ".", "0", ".", "0">>
V19   == <<"1", ".", "9">>
V110  == <<"1", ".", "1", "0">>
V2a1  == <<"2", "a", "1">>

DigitVal(c) ==
    CASE c = "0" -> 0 [] c = "1" -> 1 [] c = "2" -> 2 [] c = "3" -> 3
      [] c = "4" -> 4 [] c = "5" -> 5 [] c = "6" -> 6 [] c = "7" -> 7
      [] c = "8" -> 8 [] c = "9" -> 9

RECURSIVE ToInt(_)
ToInt(ds) ==
    IF ds = << >> THEN 0
    ELSE 10 * ToInt(SubSeq(ds, 1, Len(ds) - 1)) + DigitVal(ds[Len(ds)])

\* Index of the first occurrence of character c in s, or Len(s) + 1.
RECURSIVE FindChar(_, _, _)
FindChar(s, c, i) ==
    IF i > Len(s) THEN Len(s) + 1
    ELSE IF s[i] = c THEN i ELSE FindChar(s, c, i + 1)

\* The dot-separated numeric segments of a release string.
RECURSIVE ReleaseSegments(_)
ReleaseSegments(s) ==
    LET d == FindChar(s, ".", 1)
    IN  IF d > Len(s) THEN <<ToInt(s)>>
        ELSE <<ToInt(SubSeq(s, 1, d - 1))>> \o ReleaseSegments(SubSeq(s, d + 1, Len(s)))

\* parse(version): release numbers N(.N)* and an optional alpha pre-release aN.
parse_version(s) ==
    LET a == FindChar(s, "a", 1)
    IN  [release |-> ReleaseSegments(SubSeq(s, 1, a - 1)),
         pre     |-> IF a > Len(s) THEN None ELSE Some(ToInt(SubSeq(s, a + 1, Len(s))))]

RECURSIVE StripTrailingZeros(_)
StripTrailingZeros(r) ==
    IF r # << >> /\ r[Len(r)] = 0 THEN StripTrailingZeros(SubSeq(r, 1, Len(r) - 1)) ELSE r

\* Version._key: the release without trailing zeros; a final release sorts
\* after every pre-release of the same release.
CmpKey(v) == [release |-> StripTrailingZeros(v.release), pre |-> v.pre]

\* Python's tuple comparison.
RECURSIVE TupleLess(_, _)
TupleLess(a, b) ==
    IF a = << >> THEN b # << >>
    ELSE IF b = << >> THEN FALSE
    ELSE IF Head(a) # Head(b) THEN Head(a) < Head(b)
    ELSE TupleLess(Tail(a), Tail(b))

PreLess(p, q) ==
    IF IsNone(p) THEN FALSE
    ELSE IF IsNone(q) THEN TRUE
    ELSE p[1] < q[1]

VersionLess(v, w) ==
    LET k == CmpKey(v)
        l == CmpKey(w)
    IN  \/ TupleLess(k.release, l.release)
        \/ k.release = l.release /\ PreLess(k.pre, l.pre)

IsPreRelease(s) == ~IsNone(parse_version(s).pre)

\* The builtin max(iterable, key=...): the first of the maximal elements.
RECURSIVE MaxByKey(_, _, _)
MaxByKey(versions, i, best) ==
    IF i > Len(versions) THEN best
    ELSE MaxByKey(versions, i + 1,
                  IF VersionLess(parse_version(best), parse_version(versions[i]))
                  THEN versions[i] ELSE best)

\* A max that keeps the last of the maximal elements.
RECURSIVE MaxByKeyLast(_, _, _)
MaxByKeyLast(versions, i, best) ==
    IF i > Len(versions) THEN best
    ELSE MaxByKeyLast(versions, i + 1,
                      IF VersionLess(parse_version(versions[i]), parse_version(best))
                      THEN best ELSE versions[i])

highest_version_last(versions) == MaxByKeyLast(versions, 2, versions[1])

\* Code point order of the characters of a version string ("." < digits < "a").
CharOrd(c) == IF c = "." THEN 0 ELSE IF c = "a" THEN 11 ELSE 1 + DigitVal(c)

\* A max under lexical (string) order instead of version precedence.
RECURSIVE MaxLexical(_, _, _)
MaxLexical(versions, i, best) ==
    IF i > Len(versions) THEN best
    ELSE MaxLexical(versions, i + 1,
                    IF TupleLess([k \in 1..Len(best) |-> CharOrd(best[k])],
                                 [k \in 1..Len(versions[i]) |-> CharOrd(versions[i][k])])
                    THEN versions[i] ELSE best)

highest_version_lexical(versions) == MaxLexical(versions, 2, versions[1])

highest_version(versions) == MaxByKey(versions, 2, versions[1])

----------------------------------------------------------------------------
(* transform_hits *)

N_a   == <<"a">>
N_bbb == <<"b", "b", "b">>
S_x   == <<"x">>
S_y   == <<"y">>

\* Position of the package called name in the ordered dict, or 0.
RECURSIVE IndexOfName(_, _, _)
IndexOfName(pkgs, name, i) ==
    IF i > Len(pkgs) THEN 0
    ELSE IF pkgs[i].name = name THEN i ELSE IndexOfName(pkgs, name, i + 1)

\* A loop body that records each version string of a package only once.
TransformHitDistinct(pkgs, hit) ==
    LET k == IndexOfName(pkgs, hit.name, 1)
    IN  IF k = 0
        THEN Append(pkgs, [name |-> hit.name, summary |-> hit.summary,
                           versions |-> <<hit.version>>])
        ELSE LET vs == IF \E i \in 1..Len(pkgs[k].versions) : pkgs[k].versions[i] = hit.version
                       THEN pkgs[k].versions
                       ELSE Append(pkgs[k].versions, hit.version)
             IN  [pkgs EXCEPT ![k] =
                    [name     |-> pkgs[k].name,
                     summary  |-> IF hit.version = highest_version(vs)
                                  THEN hit.summary ELSE pkgs[k].summary,
                     versions |-> vs]]

\* The body of the for loop of transform_hits, for one hit.
TransformHit(pkgs, hit) ==
    LET k == IndexOfName(pkgs, hit.name, 1)
    IN  IF k = 0
        THEN Append(pkgs, [name |-> hit.name, summary |-> hit.summary,
                           versions |-> <<hit.version>>])
        ELSE LET vs == Append(pkgs[k].versions, hit.version)
             IN  [pkgs EXCEPT ![k] =
                    [name     |-> pkgs[k].name,
                     summary  |-> IF hit.version = highest_version(vs)
                                  THEN hit.summary ELSE pkgs[k].summary,
                     versions |-> vs]]

transform_hits_hit ==
    /\ pc = "transform_hits"
    /\ tIdx <= Len(pypi_hits)
    /\ packages' = TransformHit(packages, pypi_hits[tIdx])
    /\ tIdx' = tIdx + 1
    /\ UNCHANGED <<envVars, searchVars, printVars, pc, pypi_hits, raised, status>>

transform_hits_return ==
    /\ pc = "transform_hits"
    /\ tIdx > Len(pypi_hits)
    /\ hits' = packages
    /\ pc' = IF entry = "run" THEN "run_isatty" ELSE "done"
    /\ UNCHANGED <<envVars, searchVars, pypi_hits, tIdx, packages, name_column_width,
                   terminal_width, pIdx, output, failAt, raised, status>>

----------------------------------------------------------------------------
(* webpage_search *)

\* What result.find(...) gives: no element (None), or an element and its .text.
NoElement == [found |-> FALSE, text |-> None]
Element(text) == [found |-> TRUE, text |-> text]

\* `not s` for an Optional[str].
Falsy(o) == IsNone(o) \/ o[1] = << >>

PackageNames == {N_a, N_bbb}

\* The snippets a page is made of: the well-formed ones, and one snippet for
\* each way an element or its text can be missing.
ValidSnippets ==
    {[name |-> Element(Some(n)), version |-> Element(Some(v)), description |-> Element(d)] :
        n \in PackageNames, v \in {V10, V2a1}, d \in {None, Some(S_x)}}
DefectiveSnippets ==
    {[name |-> NoElement, version |-> Element(Some(V10)), description |-> Element(Some(S_x))],
     [name |-> Element(None), version |-> Element(Some(V10)), description |-> Element(Some(S_x))],
     [name |-> Element(Some(N_a)), version |-> NoElement, description |-> Element(Some(S_x))],
     [name |-> Element(Some(N_a)), version |-> Element(None), description |-> Element(Some(S_x))],
     [name |-> Element(Some(N_a)), version |-> Element(Some(V10)), description |-> NoElement],
     [name |-> Element(None), version |-> Element(Some(V10)), description |-> NoElement]}
Snippets == ValidSnippets \cup DefectiveSnippets

\* A request that is sent once more after a non-success status.
webpage_search_get_retry ==
    /\ pc = "webpage_search"
    /\ gets' = gets + 1
    /\ \/ /\ raised' = "ConnectionError"
          /\ pc' = "failed"
          /\ UNCHANGED <<page, sIdx, results>>
       \/ /\ IF gets = 0
             THEN raised' = raised /\ pc' = "webpage_search"
             ELSE raised' = "HTTPError" /\ pc' = "failed"
          /\ UNCHANGED <<page, sIdx, results>>
       \/ /\ page' \in SeqsUpTo(Snippets, MaxSnippets)
          /\ sIdx' = 1
          /\ results' = << >>
          /\ pc' = "webpage_search_loop"
          /\ UNCHANGED raised
    /\ UNCHANGED <<envVars, printVars, pypi_hits, tIdx, packages, status>>

webpage_search_get ==
    /\ pc = "webpage_search"
    /\ gets' = gets + 1
    /\ \/ /\ raised' = "ConnectionError"           \* requests.get raises
          /\ pc' = "failed"
          /\ UNCHANGED <<page, sIdx, results>>
       \/ /\ raised' = "HTTPError"                 \* response.raise_for_status()
          /\ pc' = "failed"
          /\ UNCHANGED <<page, sIdx, results>>
       \/ /\ page' \in SeqsUpTo(Snippets, MaxSnippets)
          /\ sIdx' = 1
          /\ results' = << >>
          /\ pc' = "webpage_search_loop"
          /\ UNCHANGED raised
    /\ UNCHANGED <<envVars, printVars, pypi_hits, tIdx, packages, status>>

\* The attribute access `.text` on the None that find() gave raises.
SnippetRaises(snippet) ==
    \/ ~snippet.name.found
    \/ ~snippet.version.found
    \/ /\ ~Falsy(snippet.name.text) /\ ~Falsy(snippet.version.text)
       /\ ~snippet.description.found

SnippetSkipped(snippet) == Falsy(snippet.name.text) \/ Falsy(snippet.version.text)

SnippetHit(snippet) ==
    [name    |-> snippet.name.text[1],
     version |-> snippet.version.text[1],
     summary |-> snippet.description.text]

webpage_search_snippet ==
    /\ pc = "webpage_search_loop"
    /\ sIdx <= Len(page)
    /\ LET snippet == page[sIdx]
       IN  IF SnippetRaises(snippet)
           THEN /\ raised' = "AttributeError"
                /\ pc' = "failed"
                /\ UNCHANGED <<sIdx, results>>
           ELSE /\ results' = IF SnippetSkipped(snippet) THEN results
                              ELSE Append(results, SnippetHit(snippet))
                /\ sIdx' = sIdx + 1
                /\ UNCHANGED <<raised, pc>>
    /\ UNCHANGED <<envVars, printVars, gets, page, pypi_hits, tIdx, packages, status>>

webpage_search_return ==
    /\ pc = "webpage_search_loop"
    /\ sIdx > Len(page)
    /\ pypi_hits' = results
    /\ page' = << >>
    /\ results' = << >>
    /\ sIdx' = 1
    /\ tIdx' = 1
    /\ packages' = << >>
    /\ pc' = IF entry = "run" THEN "transform_hits" ELSE "done"
    /\ UNCHANGED <<envVars, printVars, gets, raised, status>>

----------------------------------------------------------------------------
(* textwrap.wrap(text, width), for text without tabs, newlines or hyphens *)

IsSpaceChunk(c) == \A i \in 1..Len(c) : c[i] = " "

\* TextWrapper._split: the maximal runs of spaces and of other characters.
RECURSIVE SplitChunks(_, _)
SplitChunks(text, acc) ==
    IF text = << >> THEN acc
    ELSE IF acc # << >> /\ ((acc[Len(acc)][1] = " ") <=> (Head(text) = " "))
         THEN SplitChunks(Tail(text),
                          [acc EXCEPT ![Len(acc)] = Append(acc[Len(acc)], Head(text))])
         ELSE SplitChunks(Tail(text), Append(acc, <<Head(text)>>))

\* How many leading chunks of cs fit on a line that already holds n characters.
RECURSIVE FitCount(_, _, _)
FitCount(cs, n, width) ==
    IF cs # << >> /\ n + Len(Head(cs)) <= width
    THEN 1 + FitCount(Tail(cs), n + Len(Head(cs)), width)
    ELSE 0

\* TextWrapper._wrap_chunks, one line per recursion.
RECURSIVE WrapChunks(_, _, _)
WrapChunks(chunks, width, lines) ==
    IF chunks = << >> THEN lines
    ELSE LET cs    == IF IsSpaceChunk(Head(chunks)) /\ lines # << >>
                      THEN Tail(chunks) ELSE chunks
             k     == FitCount(cs, 0, width)
             fit   == SubSeq(cs, 1, k)
             after == SubSeq(cs, k + 1, Len(cs))
             long  == after # << >> /\ Len(Head(after)) > width
             left  == width - Len(Concat(fit))
             cur   == IF long THEN Append(fit, SubSeq(Head(after), 1, left)) ELSE fit
             rest  == IF long
                      THEN <<SubSeq(Head(after), left + 1, Len(Head(after)))>> \o Tail(after)
                      ELSE after
             kept  == IF cur # << >> /\ IsSpaceChunk(cur[Len(cur)])
                      THEN SubSeq(cur, 1, Len(cur) - 1) ELSE cur
         IN  WrapChunks(rest, width,
                        IF kept # << >> THEN Append(lines, Concat(kept)) ELSE lines)

textwrap_wrap(text, width) == WrapChunks(SplitChunks(text, << >>), width, << >>)

\* sep.join(lines)
RECURSIVE Join(_, _)
Join(sep, lines) ==
    IF lines = << >> THEN << >>
    ELSE IF Len(lines) = 1 THEN lines[1]
    ELSE lines[1] \o sep \o Join(sep, Tail(lines))

----------------------------------------------------------------------------
(* print_results *)

\* max([len(name) + len(highest_version(versions)) for hit in hits]) + 4
RECURSIVE MaxLabel(_)
MaxLabel(hs) ==
    IF hs = << >> THEN 0
    ELSE Max2(Len(Head(hs).name) + Len(highest_version(Head(hs).versions)),
              MaxLabel(Tail(hs)))

ComputedColumnWidth(hs) == MaxLabel(hs) + 4

\* hit['summary'] or ''
SummaryOrEmpty(o) == IF Falsy(o) THEN << >> ELSE o[1]

\* f'{name} ({latest})'
NameLatest(hit) ==
    hit.name \o <<" ", "(">> \o highest_version(hit.versions) \o <<")">>

\* A format that also cuts the string down to width.
PadOrTruncate(str, width) ==
    IF Len(str) > width THEN SubSeq(str, 1, width) ELSE str \o Spaces(width - Len(str))

\* f'{s:{width}}': left-aligned, filled with spaces up to width, never cut.
PadTo(str, width) == str \o Spaces(width - Len(str))

WrapThreshold == 10

\* A test that also wraps at the threshold itself.
WrapsFromThreshold(ncw, tw) == ~IsNone(tw) /\ tw[1] - ncw - 5 >= WrapThreshold

\* Whether lines 152-154 choose to wrap.
Wraps(ncw, tw) == ~IsNone(tw) /\ tw[1] - ncw - 5 > WrapThreshold

\* Lines 150-158: the summary as it is put on the line.
ShownSummary(hit, ncw, tw) ==
    IF Wraps(ncw, tw)
    THEN Join(<<"\n">> \o Spaces(ncw + 3),
              textwrap_wrap(SummaryOrEmpty(hit.summary), tw[1] - ncw - 5))
    ELSE SummaryOrEmpty(hit.summary)

\* Lines 160-161.
FormatLine(hit, ncw, tw) ==
    PadTo(NameLatest(hit), ncw) \o <<" ", "-", " ">> \o ShownSummary(hit, ncw, tw)

Str_INSTALLED == <<"I", "N", "S", "T", "A", "L", "L", "E", "D", ":", " ">>
Str_LATEST    == <<"L", "A", "T", "E", "S", "T", ":", " ", " ", " ", " ">>
Str_latest    == <<" ", "(", "l", "a", "t", "e", "s", "t", ")">>
Str_pre       == <<" ", "(", "p", "r", "e", "-", "r", "e", "l", "e", "a", "s", "e", ";", " ", "i", "n", "s", "t", "a", "l", "l", " ", "w", "i", "t", "h", " ", "\"", "p", "i", "p", " ", "i", "n", "s", "t", "a", "l", "l", " ", "-", "-", "p", "r", "e", "\"", ")">>
Str_indent    == <<" ", " ">>

\* Lines 165-175: the lines written under indent_log() for an installed dist.
AnnotationLines(dist, latest) ==
    IF IsNone(dist) THEN << >>
    ELSE IF dist[1] = latest
         THEN <<Str_indent \o Str_INSTALLED \o dist[1] \o Str_latest>>
         ELSE <<Str_indent \o Str_INSTALLED \o dist[1],
                Str_indent \o Str_LATEST \o latest \o
                    (IF IsPreRelease(latest) THEN Str_pre ELSE << >>)>>

\* The write_output calls of one iteration of the loop, in order.
HitLines(hit, ncw, tw) ==
    <<FormatLine(hit, ncw, tw)>> \o
    AnnotationLines(installed[hit.name], highest_version(hit.versions))

print_results_begin ==
    /\ pc = "print_results"
    /\ IF hits = << >>
       THEN /\ pc' = IF entry = "run" THEN "run_return" ELSE "done"
            /\ UNCHANGED name_column_width
       ELSE /\ name_column_width' = IF IsNone(name_column_width)
                                    THEN Some(ComputedColumnWidth(hits))
                                    ELSE name_column_width
            /\ pc' = "print_results_loop"
    /\ pIdx' = 1
    /\ UNCHANGED <<envVars, searchVars, pypi_hits, tIdx, packages, hits, terminal_width,
                   output, failAt, raised, status>>

\* No except clause: the error leaves print_results.
EncodeErrorPropagates(i) == [pc |-> "failed", pIdx |-> i, raised |-> "UnicodeEncodeError"]

\* What happens after a write of result i raised UnicodeEncodeError:
\* the except clause passes and the loop goes on with the next result.
AfterEncodeError(i) == [pc |-> "print_results_loop", pIdx |-> i + 1, raised |-> "none"]

print_results_hit ==
    /\ pc = "print_results_loop"
    /\ pIdx <= Len(hits)
    /\ LET lines == HitLines(hits[pIdx], name_column_width[1], terminal_width)
       IN  \E f \in 0..Len(lines) :
              /\ f > 0 => lossy
              /\ output' = output \o (IF f = 0 THEN lines ELSE SubSeq(lines, 1, f - 1))
              /\ failAt' = Append(failAt, f)
              /\ LET next == IF f = 0
                             THEN [pc |-> "print_results_loop", pIdx |-> pIdx + 1,
                                   raised |-> "none"]
                             ELSE AfterEncodeError(pIdx)
                 IN  /\ pc' = next.pc
                     /\ pIdx' = next.pIdx
                     /\ raised' = next.raised
    /\ UNCHANGED <<envVars, searchVars, pypi_hits, tIdx, packages, hits,
                   name_column_width, terminal_width, status>>

print_results_return ==
    /\ pc = "print_results_loop"
    /\ pIdx > Len(hits)
    /\ pc' = IF entry = "run" THEN "run_return" ELSE "done"
    /\ UNCHANGED <<envVars, searchVars, printVars, pypi_hits, tIdx, packages, raised, status>>

----------------------------------------------------------------------------
(* SearchCommand.run *)

\* A run that does not look at args before searching.
run_no_check_args ==
    /\ pc = "run"
    /\ pc' = "webpage_search"
    /\ UNCHANGED <<envVars, searchVars, printVars, pypi_hits, tIdx, packages, raised, status>>

run_check_args ==
    /\ pc = "run"
    /\ IF args = << >>
       THEN raised' = "CommandError" /\ pc' = "failed"
       ELSE raised' = raised /\ pc' = "webpage_search"
    /\ UNCHANGED <<envVars, searchVars, printVars, pypi_hits, tIdx, packages, status>>

TermWidths == (MaxTermWidth - 3)..MaxTermWidth

\* Lines 65-67: None unless stdout is a terminal, else its width.
run_isatty ==
    /\ pc = "run_isatty"
    /\ terminal_width' \in {None} \cup {Some(w) : w \in TermWidths}
    /\ name_column_width' = None
    /\ pc' = "print_results"
    /\ UNCHANGED <<envVars, searchVars, pypi_hits, tIdx, packages, hits, pIdx, output,
                   failAt, raised, status>>

\* A run that reports success only when something was printed.
run_return_by_output ==
    /\ pc = "run_return"
    /\ status' = IF output # << >> THEN "SUCCESS" ELSE "NO_MATCHES_FOUND"
    /\ pc' = "done"
    /\ UNCHANGED <<envVars, searchVars, printVars, pypi_hits, tIdx, packages, raised>>

run_return ==
    /\ pc = "run_return"
    /\ status' = IF pypi_hits # << >> THEN "SUCCESS" ELSE "NO_MATCHES_FOUND"
    /\ pc' = "done"
    /\ UNCHANGED <<envVars, searchVars, printVars, pypi_hits, tIdx, packages, raised>>

----------------------------------------------------------------------------
(* One invocation of the command *)

InstalledVersions == {None, Some(V10)}

Init ==
    /\ entry = "run"
    /\ pc = "run"
    /\ args \in SeqsUpTo({"pip"}, MaxArgs)
    /\ installed \in [PackageNames -> InstalledVersions]
    /\ lossy \in BOOLEAN
    /\ gets = 0
    /\ page = << >>
    /\ sIdx = 1
    /\ results = << >>
    /\ pypi_hits = << >>
    /\ tIdx = 1
    /\ packages = << >>
    /\ hits = << >>
    /\ name_column_width = None
    /\ terminal_width = None
    /\ pIdx = 1
    /\ output = << >>
    /\ failAt = << >>
    /\ raised = "none"
    /\ status = "none"

Next ==
    \/ run_check_args
    \/ webpage_search_get
    \/ webpage_search_snippet
    \/ webpage_search_return
    \/ transform_hits_hit
    \/ transform_hits_return
    \/ run_isatty
    \/ print_results_begin
    \/ print_results_hit
    \/ print_results_return
    \/ run_return

Spec == Init /\ [][Next]_vars

----------------------------------------------------------------------------
(* transform_hits called on its own *)

TransformNames == {N_a, N_bbb}
TransformVersions == {V10, V100, V19, V110}
TransformSummaries == {Some(S_x), Some(S_y)}
TransformInputs ==
    SeqsUpTo([name : TransformNames, version : TransformVersions,
              summary : TransformSummaries], MaxHits)

InitTransform ==
    /\ entry = "transform_hits"
    /\ pc = "transform_hits"
    /\ pypi_hits \in TransformInputs
    /\ tIdx = 1
    /\ packages = << >>
    /\ args = << >>
    /\ gets = 0
    /\ page = << >>
    /\ sIdx = 1
    /\ results = << >>
    /\ hits = << >>
    /\ name_column_width = None
    /\ terminal_width = None
    /\ pIdx = 1
    /\ output = << >>
    /\ failAt = << >>
    /\ raised = "none"
    /\ status = "none"
    /\ installed = [n \in PackageNames |-> None]
    /\ lossy = FALSE

NextTransform == transform_hits_hit \/ transform_hits_return

SpecTransform == InitTransform /\ [][NextTransform]_vars

----------------------------------------------------------------------------
(* Properties of transform_hits *)

\* The hits transform_hits has processed so far.
Processed == SubSeq(pypi_hits, 1, tIdx - 1)

\* The distinct names of h, in the order of their first occurrence.
RECURSIVE FirstNames(_)
FirstNames(h) ==
    IF h = << >> THEN << >>
    ELSE LET init == SubSeq(h, 1, Len(h) - 1)
             last == h[Len(h)].name
         IN  IF \E i \in 1..Len(init) : init[i].name = last
             THEN FirstNames(init)
             ELSE Append(FirstNames(init), last)

\* The version strings of the hits of h called name, in the order of h.
RECURSIVE VersionsOf(_, _)
VersionsOf(h, name) ==
    IF h = << >> THEN << >>
    ELSE IF Head(h).name = name
         THEN <<Head(h).version>> \o VersionsOf(Tail(h), name)
         ELSE VersionsOf(Tail(h), name)

Aggregates(pkgs, h) ==
    /\ Len(pkgs) = Len(FirstNames(h))
    /\ \A k \in 1..Len(pkgs) :
          /\ pkgs[k].name = FirstNames(h)[k]
          /\ pkgs[k].versions = VersionsOf(h, pkgs[k].name)

\* C1: transform_hits returns exactly one record per distinct package name, in
\* the order of the first occurrence of each name, and each record's versions
\* are the version strings of the hits of that name, in input order; the same
\* holds of the dict after every prefix of the input.
C1_GroupsByNameInOrder ==
    /\ pc = "transform_hits" => Aggregates(packages, Processed)
    /\ (entry = "transform_hits" /\ pc = "done") => Aggregates(hits, pypi_hits)

C1_Witness ==
    /\ pc = "done"
    /\ Len(pypi_hits) = 3
    /\ pypi_hits[1].name = N_a /\ pypi_hits[2].name = N_bbb /\ pypi_hits[3].name = N_a
    /\ pypi_hits[1].version = pypi_hits[3].version
    /\ Len(hits) = 2
    /\ hits[1].versions = <<pypi_hits[1].version, pypi_hits[3].version>>

\* Hit j of h is a hit of package name whose version no hit of that package
\* in h exceeds under version precedence.
IsHighestHit(h, name, j) ==
    /\ h[j].name = name
    /\ \A i \in 1..Len(h) :
          h[i].name = name =>
             ~VersionLess(parse_version(h[j].version), parse_version(h[i].version))

SummaryOfAHighest(pkgs, h) ==
    \A k \in 1..Len(pkgs) :
        \E j \in 1..Len(h) :
            IsHighestHit(h, pkgs[k].name, j) /\ h[j].summary = pkgs[k].summary

\* C2: after every prefix of the input, each package's summary is the summary
\* of a hit of that package whose version compares highest, under version
\* precedence, among the versions of that package seen so far.
C2_SummaryOfHighestVersion ==
    /\ pc = "transform_hits" => SummaryOfAHighest(packages, Processed)
    /\ (entry = "transform_hits" /\ pc = "done") => SummaryOfAHighest(hits, pypi_hits)

\* A later hit with a lower version (1.9 after 1.10, the higher under
\* precedence and the lower under string order) left the summary alone.
C2_Witness ==
    /\ pc = "done"
    /\ pypi_hits = <<[name |-> N_a, version |-> V110, summary |-> Some(S_x)],
                     [name |-> N_a, version |-> V19, summary |-> Some(S_y)]>>
    /\ hits[1].summary = Some(S_x)

\* The last hit of h that is a hit of package name with a highest version.
LastHighestHit(h, name) ==
    CHOOSE j \in 1..Len(h) :
        /\ IsHighestHit(h, name, j)
        /\ \A i \in (j + 1)..Len(h) : ~IsHighestHit(h, name, i)

SummaryOfLastTying(pkgs, h) ==
    \A k \in 1..Len(pkgs) :
        pkgs[k].summary = h[LastHighestHit(h, pkgs[k].name)].summary

\* C9 as stated: among the hits of a package whose versions tie for highest,
\* the later one wins, so the summary is that of the last of the tying hits.
C9_LastTyingHitWins ==
    pc = "transform_hits" => SummaryOfLastTying(packages, Processed)

\* The last hit of h of package name carrying exactly the version string s.
LastHitWithString(h, name, s) ==
    CHOOSE j \in 1..Len(h) :
        /\ h[j].name = name /\ h[j].version = s
        /\ \A i \in (j + 1)..Len(h) : ~(h[i].name = name /\ h[i].version = s)

\* The first of the version strings of package name in h that compare highest.
FirstHighestString(h, name) ==
    LET j == CHOOSE j \in 1..Len(h) :
                 /\ IsHighestHit(h, name, j)
                 /\ \A i \in 1..(j - 1) : ~IsHighestHit(h, name, i)
    IN  h[j].version

SummaryOfFirstTyingString(pkgs, h) ==
    \A k \in 1..Len(pkgs) :
        LET s == FirstHighestString(h, pkgs[k].name)
        IN  pkgs[k].summary = h[LastHitWithString(h, pkgs[k].name, s)].summary

\* C9 (amended): when distinct version strings tie for highest, the string
\* that occurred first wins: the summary is that of the last hit carrying
\* exactly that string, and a later hit with another tying string (1.0.0
\* after 1.0) does not overwrite it.
C9_FirstTyingStringWins ==
    pc = "transform_hits" => SummaryOfFirstTyingString(packages, Processed)

C9_Witness ==
    /\ pc = "transform_hits"
    /\ tIdx = 4
    /\ pypi_hits = <<[name |-> N_a, version |-> V10, summary |-> Some(S_x)],
                     [name |-> N_a, version |-> V100, summary |-> Some(S_y)],
                     [name |-> N_a, version |-> V10, summary |-> Some(S_y)]>>
    /\ packages[1].summary = Some(S_y)

----------------------------------------------------------------------------
(* Properties of SearchCommand.run and webpage_search *)

AfterSearch ==
    pc \in {"transform_hits", "run_isatty", "print_results", "print_results_loop",
            "run_return", "done"}

\* C3: when run is given a query and the search step succeeds, run fails no
\* more and returns NO_MATCHES_FOUND exactly when the raw hit list is empty,
\* SUCCESS otherwise, however few records aggregation leaves; with an empty
\* raw hit list nothing is printed.
C3_ExitStatusFromRawHits ==
    entry = "run" =>
        /\ AfterSearch => raised = "none"
        /\ pc = "done" =>
              /\ status = (IF pypi_hits = << >> THEN "NO_MATCHES_FOUND" ELSE "SUCCESS")
              /\ pypi_hits = << >> => output = << >>
        /\ pc # "done" => status = "none"

\* Two raw hits of one package collapse into one record, nothing could be
\* printed, and the status is still SUCCESS.
C3_Witness ==
    /\ entry = "run" /\ pc = "done" /\ status = "SUCCESS"
    /\ Len(pypi_hits) = 2 /\ Len(hits) = 1
    /\ output = << >>

\* The hit the claim expects of a snippet that has a name and a version.
ClaimedHit(snippet) ==
    [name    |-> snippet.name.text[1],
     version |-> snippet.version.text[1],
     summary |-> IF snippet.description.found THEN snippet.description.text ELSE None]

HasNameAndVersion(snippet) ==
    /\ snippet.name.found /\ ~Falsy(snippet.name.text)
    /\ snippet.version.found /\ ~Falsy(snippet.version.text)

RECURSIVE ClaimedHits(_)
ClaimedHits(snippets) ==
    IF snippets = << >> THEN << >>
    ELSE (IF HasNameAndVersion(Head(snippets)) THEN <<ClaimedHit(Head(snippets))>> ELSE << >>)
         \o ClaimedHits(Tail(snippets))

\* C4 as stated: webpage_search raises no error on any page of snippets, and
\* its results are one hit, in page order, for each snippet with a non-empty
\* name text and version text; a snippet with an absent or empty name or
\* version is skipped, an absent description gives an empty summary.
C4_SkipsMalformedSnippets ==
    /\ raised # "AttributeError"
    /\ pc = "webpage_search_loop" =>
          /\ results = ClaimedHits(SubSeq(page, 1, sIdx - 1))
          /\ Len(results) <= Len(page)

\* C5: a run with a query issues exactly one GET, before any extraction,
\* aggregation or printing; when the request fails or its status is not a
\* success the command has failed for good with that one request made, no
\* hit extracted, no line printed and no status returned.
C5_OneRequestFailFast ==
    /\ gets <= 1
    /\ gets = 0 => /\ page = << >> /\ results = << >> /\ pypi_hits = << >>
                   /\ packages = << >> /\ hits = << >> /\ output = << >>
                   /\ pc \in {"run", "webpage_search", "failed"}
    /\ (args # << >> /\ pc \notin {"run", "webpage_search"}) => gets = 1
    /\ raised \in {"ConnectionError", "HTTPError"} =>
          /\ pc = "failed" /\ ~ENABLED Next
          /\ gets = 1
          /\ page = << >> /\ results = << >> /\ pypi_hits = << >>
          /\ packages = << >> /\ hits = << >> /\ output = << >>
          /\ status = "none"

C5_Witness ==
    /\ args # << >> /\ raised = "HTTPError" /\ pc = "failed" /\ gets = 1

\* C6: run given no query term fails with CommandError at once: no request
\* is made, nothing is printed and no status is returned.
C6_NoQueryIsUsageError ==
    /\ (entry = "run" /\ args = << >>) =>
          /\ pc \in {"run", "failed"}
          /\ pc = "failed" => (raised = "CommandError" /\ ~ENABLED Next)
          /\ gets = 0 /\ output = << >> /\ status = "none"
    /\ raised = "CommandError" => args = << >>

C6_Witness ==
    /\ entry = "run" /\ args = << >> /\ pc = "failed" /\ raised = "CommandError"
    /\ gets = 0

----------------------------------------------------------------------------
(* print_results called on its own *)

PrintRecords ==
    [name : PackageNames, summary : {Some(S_x)}, versions : {<<V10>>, <<V10, V2a1>>}]

ColWidths == (MaxColWidth - 3)..MaxColWidth

InitPrint ==
    /\ entry = "print_results"
    /\ pc = "print_results"
    /\ hits \in SeqsUpTo(PrintRecords, MaxResults)
    /\ name_column_width \in {None} \cup {Some(w) : w \in ColWidths}
    /\ terminal_width \in {None, Some(MaxTermWidth)}
    /\ installed \in [PackageNames -> InstalledVersions]
    /\ lossy \in BOOLEAN
    /\ args = << >>
    /\ gets = 0
    /\ page = << >>
    /\ sIdx = 1
    /\ results = << >>
    /\ pypi_hits = << >>
    /\ tIdx = 1
    /\ packages = << >>
    /\ pIdx = 1
    /\ output = << >>
    /\ failAt = << >>
    /\ raised = "none"
    /\ status = "none"

NextPrint == print_results_begin \/ print_results_hit \/ print_results_return

SpecPrint == InitPrint /\ [][NextPrint]_vars

\* Summaries of every shape up to MaxSummaryLen: words and runs of spaces.
WrapSummaries == {None} \cup {Some(t) : t \in SeqsUpTo({"x", " "}, MaxSummaryLen)}

InitWrap ==
    /\ entry = "print_results"
    /\ pc = "print_results"
    /\ \E sm \in WrapSummaries :
          hits = <<[name |-> N_a, summary |-> sm, versions |-> <<V10>>]>>
    /\ name_column_width \in {None, Some(MaxColWidth - 3)}
    /\ terminal_width \in {None} \cup {Some(w) : w \in TermWidths}
    /\ installed = [n \in PackageNames |-> None]
    /\ lossy = FALSE
    /\ args = << >>
    /\ gets = 0
    /\ page = << >>
    /\ sIdx = 1
    /\ results = << >>
    /\ pypi_hits = << >>
    /\ tIdx = 1
    /\ packages = << >>
    /\ pIdx = 1
    /\ output = << >>
    /\ failAt = << >>
    /\ raised = "none"
    /\ status = "none"

SpecWrap == InitWrap /\ [][NextPrint]_vars

----------------------------------------------------------------------------
(* Properties of print_results *)

Printing == pc \in {"print_results_loop", "run_return", "done"} /\ ~IsNone(name_column_width)

\* The number of lines result k put on the output.
WrittenCount(k) ==
    IF failAt[k] = 0
    THEN Len(HitLines(hits[k], name_column_width[1], terminal_width))
    ELSE failAt[k] - 1

RECURSIVE WrittenBefore(_)
WrittenBefore(i) == IF i <= 1 THEN 0 ELSE WrittenBefore(i - 1) + WrittenCount(i - 1)

\* The lines result k put on the output.
WrittenLines(k) == SubSeq(output, WrittenBefore(k) + 1, WrittenBefore(k) + WrittenCount(k))

\* C7: a UnicodeEncodeError raised by any write of one result is swallowed:
\* print_results does not raise, the result keeps the lines written before
\* the failing one and loses the rest, and every result after it is still
\* processed, in order, and written as it is without the failure.
C7_EncodingErrorSkipsOneResult ==
    /\ raised # "UnicodeEncodeError"
    /\ Printing =>
          /\ Len(failAt) = pIdx - 1
          /\ Len(output) = WrittenBefore(pIdx)
          /\ \A k \in 1..(pIdx - 1) :
                LET lines == HitLines(hits[k], name_column_width[1], terminal_width)
                IN  WrittenLines(k) =
                       (IF failAt[k] = 0 THEN lines ELSE SubSeq(lines, 1, failAt[k] - 1))
          /\ pc \in {"run_return", "done"} => pIdx = Len(hits) + 1

\* The first result lost its second line to the error and the next one was
\* still written in full.
C7_Witness ==
    /\ pc = "done" /\ entry = "print_results"
    /\ Len(hits) >= 2
    /\ failAt[1] = 2 /\ failAt[2] = 0
    /\ Len(WrittenLines(1)) = 1
    /\ Len(WrittenLines(2)) >= 2

Separator == <<" ", "-", " ">>

\* The results whose first line reached the output.
FirstLineWritten == {k \in 1..(pIdx - 1) : failAt[k] # 1}

FirstLine(k) == output[WrittenBefore(k) + 1]

\* C10 as stated: on every result's first line the label 'name (latest)' is
\* padded or cut to exactly name_column_width characters, whether the width
\* was passed or computed, so that ' - ' starts at column name_column_width.
C10_SeparatorAtColumnWidth ==
    Printing =>
        \A k \in FirstLineWritten :
            LET w == name_column_width[1]
                line == FirstLine(k)
            IN  /\ Len(line) >= w + 3
                /\ SubSeq(line, w + 1, w + 3) = Separator

\* C10 (amended): the label is written in full and padded with spaces up to
\* name_column_width, never cut: ' - ' starts at column
\* max(name_column_width, len(label)), which is name_column_width on every
\* first line whenever the width is the computed one.
C10_LabelPaddedNeverCut ==
    Printing =>
        \A k \in FirstLineWritten :
            LET w == name_column_width[1]
                line == FirstLine(k)
                label == NameLatest(hits[k])
                col == Max2(w, Len(label))
            IN  /\ Len(line) >= col + 3
                /\ SubSeq(line, 1, Len(label)) = label
                /\ \A c \in (Len(label) + 1)..col : line[c] = " "
                /\ SubSeq(line, col + 1, col + 3) = Separator
                /\ (entry = "run" \/ w = ComputedColumnWidth(hits)) => col = w

\* Two results with labels of different lengths under the computed width.
C10_Witness ==
    /\ pc = "done" /\ entry = "print_results"
    /\ Len(hits) = 2 /\ FirstLineWritten = {1, 2}
    /\ Len(NameLatest(hits[1])) < Len(NameLatest(hits[2]))
    /\ name_column_width[1] = ComputedColumnWidth(hits)
    /\ SubSeq(FirstLine(1), name_column_width[1] + 1, name_column_width[1] + 3) = Separator
    /\ SubSeq(FirstLine(2), name_column_width[1] + 1, name_column_width[1] + 3) = Separator

\* text.split(c)
RECURSIVE SplitOn(_, _, _)
SplitOn(text, c, cur) ==
    IF text = << >> THEN <<cur>>
    ELSE IF Head(text) = c THEN <<cur>> \o SplitOn(Tail(text), c, << >>)
    ELSE SplitOn(Tail(text), c, Append(cur, Head(text)))

NonSpaces(text) == SelectSeq(text, LAMBDA ch : ch # " ")

\* The summary part of the first line of the one result: what follows ' - '.
SummaryPart ==
    LET col == Max2(name_column_width[1], Len(NameLatest(hits[1])))
    IN  SubSeq(output[1], col + 4, Len(output[1]))

TargetWidth == terminal_width[1] - name_column_width[1] - 5

\* The text of segment k of a wrapped summary, without its indentation.
SegmentText(segs, k) ==
    IF k = 1 THEN segs[1]
    ELSE SubSeq(segs[k], name_column_width[1] + 4, Len(segs[k]))

\* C8: the summary is word-wrapped only when a terminal width is given and
\* target_width = terminal_width - name_column_width - 5 exceeds 10; it is
\* then cut at spaces (or inside an over-long word) into lines of at most
\* target_width characters, each continuation line indented by exactly
\* name_column_width + 3 spaces; otherwise it is printed unchanged on one
\* line; a missing or empty summary never raises and leaves nothing after
\* ' - ' in both cases.
C8_WrapOnlyAboveThreshold ==
    /\ pc # "failed"
    /\ (Printing /\ Len(output) >= 1 /\ entry = "print_results" /\ Len(hits) = 1) =>
          LET given == SummaryOrEmpty(hits[1].summary)
              shown == SummaryPart
              segs  == SplitOn(shown, "\n", << >>)
          IN  /\ (IsNone(terminal_width) \/ TargetWidth <= 10) => shown = given
              /\ (~IsNone(terminal_width) /\ TargetWidth > 10) =>
                    /\ \A k \in 2..Len(segs) :
                          /\ IsPrefix(Spaces(name_column_width[1] + 3), segs[k])
                          /\ Len(segs[k]) > name_column_width[1] + 3
                          /\ segs[k][name_column_width[1] + 4] # " "
                    /\ \A k \in 1..Len(segs) : Len(SegmentText(segs, k)) <= TargetWidth
                    /\ NonSpaces(Concat([k \in 1..Len(segs) |-> SegmentText(segs, k)]))
                          = NonSpaces(given)
                    /\ (Len(given) <= TargetWidth /\ given # << >> /\ given[Len(given)] # " ")
                          => shown = given
              /\ given = << >> => shown = << >>

\* A summary longer than target_width was broken and its second line indented.
C8_Witness ==
    /\ pc = "done" /\ entry = "print_results" /\ Len(hits) = 1 /\ Len(output) = 1
    /\ ~IsNone(terminal_width) /\ TargetWidth > 10
    /\ Len(SplitOn(SummaryPart, "\n", << >>)) = 2
    /\ IsPrefix(Spaces(name_column_width[1] + 3), SplitOn(SummaryPart, "\n", << >>)[2])

====
